---- MODULE Spec2Model ----
(***************************************************************************)
(* Resilience layer of the voice-agent API: the sliding-window rate        *)
(* limiter and its HTTP middleware (middleware/rate_limiter.py, main.py,   *)
(* middleware/error_handler.py) and the circuit breaker                    *)
(* (utils/retry_handler.py).                                               *)
(*                                                                         *)
(* Time.  time.time() returns a float number of seconds.  The clock `now`  *)
(* counts ticks of 1/TicksPerSec second, so that sub-second ages exist and *)
(* int() truncation is visible.  The clock only moves forward, and jumps   *)
(* between the instants next to the multiples of the window.               *)
(***************************************************************************)
EXTENDS Integers, Sequences, FiniteSets, TLC

\* ---------------------------------------------------------------- bounds
TicksPerSec == 2        \* clock resolution: ticks per second
ExtraTicks == 0         \* the clock runs this many ticks past one window
MaxLimit == 2           \* requests_per_minute is drawn from 0..MaxLimit
MaxRequests == 3        \* requests that arrive in one run
MaxThreshold == 3       \* failure_threshold is drawn from 1..MaxThreshold
MaxCalls == 6           \* breaker calls that are made in one run
MaxRetries == 4         \* largest max_retries a wrapper is configured with
MaxDelaySecs == 5       \* largest initial_delay and max_delay, in seconds
MaxFactor == 2          \* largest backoff_factor
MaxInvocations == 3     \* create_clinical_note invocations in one run
MaxMetricOps == 4       \* MetricsCollector calls threads make in one run
MaxRecords == 10        \* record_request calls one caller makes in a row
MaxOtherSteps == 2      \* steps of the second task of the event loop

\* ------------------------------------------------------ program constants
window_size == 60       \* RateLimiter.window_size, seconds
recovery_timeout == 60  \* CircuitBreaker.recovery_timeout, seconds
DefaultLimit == 60      \* RATE_LIMIT_PER_MINUTE default
DefaultThreshold == 5   \* CircuitBreaker.failure_threshold default
DefaultMaxRetries == 3      \* retry_with_backoff max_retries default
DefaultInitialDelay == 1    \* retry_with_backoff initial_delay default
DefaultBackoffFactor == 2   \* retry_with_backoff backoff_factor default
DefaultMaxDelay == 60       \* retry_with_backoff max_delay default

NONE == "<None>"        \* Python's None

WindowTicks == window_size * TicksPerSec
RecoveryTicks == recovery_timeout * TicksPerSec

\* The values time.time() takes in the model.
Instants == {0, 1} \cup ((WindowTicks - 1)..(WindowTicks + ExtraTicks))

Threads == {"t1", "t2"}

\* Callers of one CircuitBreaker whose calls overlap.
Callers == {"c1", "c2"}

\* Requests: path, X-API-Key header (absent, empty or a key), request.client
\* (None or a peer with a host).
Paths == {"/health", "/api/v1/bot"}
ApiKeys == {NONE, "", "key-A"}
Hosts == {NONE, "10.0.0.1"}
ClientIds == {"key-A", "10.0.0.1", "unknown"}

\* RateLimitMiddleware.__call__: paths that skip the limiter.
ExemptPaths == {"/health", "/docs", "/openapi.json", "/redoc"}

VARIABLES
    now,                \* time.time(), in ticks
    requests_per_minute, \* RateLimiter.requests_per_minute
    requests,           \* RateLimiter.requests: client -> list of (ts, count)
    lock,               \* RateLimiter.lock: the thread holding it, or NONE
    pc,                 \* per thread: position in RateLimitMiddleware.__call__
    req,                \* per thread: the request being processed
    client_id,          \* per thread: local client_id
    current_time,       \* per thread: local current_time of is_allowed
    total_requests,     \* per thread: local total_requests of is_allowed
    result,             \* per thread: (is_allowed, remaining) returned
    exc,                \* per thread: exception raised (with get_retry_after's value)
    resp,               \* per thread: response sent to the client
    admitted,           \* history: client -> times of all admissions so far
    started,            \* history: number of requests that have arrived
    failure_threshold,  \* CircuitBreaker.failure_threshold
    state,              \* CircuitBreaker.state
    failure_count,      \* CircuitBreaker.failure_count
    last_failure_time,  \* CircuitBreaker.last_failure_time, NONE or ticks
    cpc,                \* per caller: position in call / call_async
    entered,            \* per caller: breaker state when func was invoked
    outcome,            \* per caller: how the last call ended
    loaded,             \* per caller: failure_count as read by "+= 1"
    reported,           \* per caller: seconds named by CircuitBreakerError
    consec,             \* history: qualifying failures since the last success
    calls               \* history: number of calls made

rlVars == <<requests_per_minute, requests, lock, pc, req, client_id,
            current_time, total_requests, result, exc, resp, admitted,
            started>>

cbVars == <<failure_threshold, state, failure_count, last_failure_time, cpc,
            entered, outcome, loaded, reported, consec, calls>>

\* retry_with_backoff: one call of the wrapper around func.
VARIABLES
    max_retries,        \* decorator arguments
    initial_delay,
    backoff_factor,
    max_delay,
    exceptions,         \* the classes of the except clause
    is_async,           \* asyncio.iscoroutinefunction(func)
    attempt,            \* loop variable of the wrapper
    delay,              \* local: the next sleep, in seconds
    last_exception,     \* local
    rpc,                \* "calling", "sleeping", "returned", "raised"
    propagated,         \* the exception that left the wrapper
    invocations,        \* history: number of times func was invoked
    slept,              \* history: the delays slept, in order
    raised,             \* history: class raised by the latest invocation
    cancel_seen         \* history: a CancelledError reached the wrapper

rtVars == <<max_retries, initial_delay, backoff_factor, max_delay, exceptions,
            is_async, attempt, delay, last_exception, rpc, propagated,
            invocations, slept, raised, cancel_seen>>

\* create_clinical_note and the MetricsCollector it reports to. The
\* handler has no await: on the event loop one invocation runs from its
\* first statement to its last before another starts.
VARIABLES
    metrics,            \* metrics_collector._metrics
    hpc,                \* position of the handler
    start_time,         \* local of the handler
    patient_ok,         \* validate_patient_data accepts request.patient_data
    hexc,               \* exception being handled by the outer try
    hout,               \* what left the handler: a response or an HTTP error
    disconnected,       \* history: the client gave the request up meanwhile
    recorded,           \* history: success flags this invocation recorded
    invoked             \* history: number of invocations started

hVars == <<metrics, hpc, start_time, patient_ok, hexc, hout, disconnected,
           recorded, invoked>>

hLocals == <<hpc, start_time, patient_ok, hexc, hout, disconnected, recorded,
             invoked>>

\* MetricsCollector called directly, by threads or by one caller.
VARIABLES
    mlock,              \* MetricsCollector._lock: the thread holding it, or NONE
    mpc,                \* per thread: position in record_request
    margs,              \* per thread: arguments of record_request
    mloaded,            \* per thread: total_requests as read by "+= 1"
    snapshot,           \* what the latest get_metrics call returned
    hist,               \* history: calls completed since the last reset
    snap_hist,          \* history: hist when the snapshot was taken
    mops                \* history: number of calls started

mVars == <<mlock, mpc, margs, mloaded, snapshot, hist, snap_hist, mops>>

\* The wrappers of retry_with_backoff next to other work: the thread the
\* wrapper runs on, a second task of the same event loop, and the two
\* wrappers run side by side on the same outcomes of func.
VARIABLES
    on_loop,            \* the wrapper is called on the event-loop thread
    other_done,         \* history: steps the second task of the loop made
    async_run,          \* async_wrapper: its locals and what it did so far
    sync_run            \* sync_wrapper: its locals and what it did so far

xVars == <<on_loop, other_done, async_run, sync_run>>

vars == <<now, rlVars, cbVars, rtVars, hVars, mVars, xVars>>

NoReq == [path |-> NONE, key |-> NONE, host |-> NONE]
NoResult == [allowed |-> FALSE, remaining |-> -1, set |-> FALSE]
NoExc == [kind |-> NONE, status |-> 0, retry_after |-> -1]
NoException == [kind |-> NONE, id |-> 0]
\* Classes func raises, and the tuples the decorator is given.
Kinds == {"ConnectionError", "ValueError", "CancelledError"}
DefaultExceptions == {"Exception"}
ExceptionSets == {DefaultExceptions, {"ConnectionError"}}
\* MetricsData(), without the token counters the handler never touches;
\* total_latency is in the unit of the latencies passed in: clock ticks
\* from the handler, milliseconds from direct callers.
NoMetrics ==
    [total_requests |-> 0, successful_requests |-> 0, failed_requests |-> 0,
     total_latency |-> 0, request_count_for_latency |-> 0,
     active_sessions |-> 0, total_sessions |-> 0]
\* latency_ms values passed to record_request.
Latencies == {100, 200, 300}
NoArgs == [success |-> FALSE, latency |-> 0]
NoSnapshot == [taken |-> FALSE]
NoHist ==
    [ok |-> 0, failed |-> 0, lat |-> [l \in Latencies |-> 0],
     sessions |-> 0, decrements |-> 0, after_reset |-> FALSE,
     wiped |-> FALSE]
NoReport == [retry_after |-> -1, elapsed |-> -1]
NoResp == [status |-> 0, retry_after |-> -1, handler |-> FALSE, remaining |-> -1]

\* ------------------------------------------------------------ pure helpers
RECURSIVE SumCounts(_)
SumCounts(entries) ==
    IF entries = <<>> THEN 0
    ELSE Head(entries).count + SumCounts(Tail(entries))

RECURSIVE Filter(_, _)
Filter(entries, cutoff) ==
    IF entries = <<>> THEN <<>>
    ELSE IF Head(entries).ts > cutoff
         THEN <<Head(entries)>> \o Filter(Tail(entries), cutoff)
         ELSE Filter(Tail(entries), cutoff)

MinTs(entries) ==
    CHOOSE m \in { entries[i].ts : i \in DOMAIN entries } :
        \A i \in DOMAIN entries : m <= entries[i].ts

\* int(x) for x = num / TicksPerSec seconds: truncation toward zero.
IntSeconds(num) ==
    IF num >= 0 THEN num \div TicksPerSec ELSE -((-num) \div TicksPerSec)

Max(a, b) == IF a >= b THEN a ELSE b

\* Faults of _clean_old_requests: the cutoff one tick late (entries are
\* purged before they have aged a whole window), and ts >= cutoff_time in
\* place of ts > cutoff_time.
CleanTooEarly(entries, ct) == Filter(entries, ct - WindowTicks + 1)
CleanTooLate(entries, ct) == Filter(entries, ct - WindowTicks - 1)

\* _clean_old_requests: the entries kept for current time ct.
CleanOldRequests(entries, ct) == Filter(entries, ct - WindowTicks)

\* Fault of the denial test: > in place of >=.
LimitExceeded(total, limit) == total > limit

\* is_allowed, line 56: the denial test.
LimitReached(total, limit) == total >= limit

\* get_retry_after, lines 80-87, at clock value t.
GetRetryAfter(entries, t) ==
    IF entries = <<>> THEN 0
    ELSE Max(0, IntSeconds(WindowTicks - (t - MinTs(entries))))

\* Fault of the client identifier: the source address preferred to the key.
ClientIdHostFirst(r) ==
    IF r.host # NONE THEN r.host
    ELSE IF r.key # NONE /\ r.key # "" THEN r.key ELSE "unknown"

\* RateLimitMiddleware.__call__, lines 110-114.
ClientIdOf(r) ==
    LET c1 == r.key
        c2 == IF (c1 = NONE \/ c1 = "") /\ r.host # NONE THEN r.host ELSE c1
    IN  IF c2 = NONE \/ c2 = "" THEN "unknown" ELSE c2

\* Fault of is_allowed: no mutual exclusion.
NoLock(t) == TRUE

\* with self.lock: the lock can be taken by t.
LockFree(t) == lock = NONE

\* Fault of the recovery test: the breaker recovers one tick early.
RecoveryEarly(t, last) == t - last >= RecoveryTicks - 1

\* Fault of the recovery test: > in place of >=.
RecoveryStrict(t, last) == t - last > RecoveryTicks

\* call, line 38: time.time() - self.last_failure_time >= recovery_timeout.
RecoveryElapsed(t, last) == t - last >= RecoveryTicks

\* MetricsCollector.record_request, under its lock.
RecordRequest(m, success, latency) ==
    [m EXCEPT !.total_requests = @ + 1,
              !.successful_requests = IF success THEN @ + 1 ELSE @,
              !.failed_requests = IF success THEN @ ELSE @ + 1,
              !.total_latency = @ + latency,
              !.request_count_for_latency = @ + 1]

\* MetricsCollector.increment_active_sessions.
\* Fault of increment_active_sessions: total_sessions is not counted.
IncrementActiveOnly(m) == [m EXCEPT !.active_sessions = @ + 1]

IncrementActiveSessions(m) ==
    [m EXCEPT !.active_sessions = @ + 1, !.total_sessions = @ + 1]

\* Fault of decrement_active_sessions: no floor.
DecrementUnfloored(m) == [m EXCEPT !.active_sessions = @ - 1]

\* MetricsCollector.decrement_active_sessions.
DecrementActiveSessions(m) ==
    [m EXCEPT !.active_sessions = Max(0, @ - 1)]

\* MetricsCollector.reset_metrics.
\* Fault of reset_metrics: only the request counters are replaced.
ResetRequestsOnly(m) ==
    [NoMetrics EXCEPT !.active_sessions = m.active_sessions,
                      !.total_sessions = m.total_sessions]

ResetMetrics(m) == NoMetrics

\* The history after reset_metrics: nothing completed since, and whether
\* a reset replaced counters that were not all 0.
HistReset(h, m) ==
    [NoHist EXCEPT !.after_reset = TRUE, !.wiped = (h.wiped \/ m # NoMetrics)]

\* A float that is the quotient n / d, as the fraction in lowest terms.
RECURSIVE Gcd(_, _)
Gcd(a, b) == IF b = 0 THEN a ELSE Gcd(b, a % b)
Ratio(n, d) == LET g == Gcd(n, d) IN [num |-> n \div g, den |-> d \div g]

\* Fault of get_average_latency: divides by total_requests + 1.
AverageOverOneMore(m) ==
    IF m.request_count_for_latency = 0 THEN Ratio(0, 1)
    ELSE Ratio(m.total_latency, m.request_count_for_latency + 1)

\* MetricsData.get_average_latency, lines 33-37.
GetAverageLatency(m) ==
    IF m.request_count_for_latency = 0 THEN Ratio(0, 1)
    ELSE Ratio(m.total_latency, m.request_count_for_latency)

\* Fault of get_error_rate: the rate of successes.
SuccessRate(m) ==
    IF m.total_requests = 0 THEN Ratio(0, 1)
    ELSE Ratio(m.successful_requests * 100, m.total_requests)

\* MetricsData.get_error_rate, lines 39-43.
GetErrorRate(m) ==
    IF m.total_requests = 0 THEN Ratio(0, 1)
    ELSE Ratio(m.failed_requests * 100, m.total_requests)

\* MetricsCollector.get_metrics, lines 119-134, without the token counters,
\* uptime, costs and timestamp.
GetMetrics(m) ==
    [taken |-> TRUE,
     total_requests |-> m.total_requests,
     successful_requests |-> m.successful_requests,
     failed_requests |-> m.failed_requests,
     average_latency_ms |-> GetAverageLatency(m),
     error_rate |-> GetErrorRate(m),
     active_sessions |-> m.active_sessions,
     total_sessions |-> m.total_sessions]

\* Fault of the mutators: no mutual exclusion.
MNoLock(t) == TRUE

\* with self._lock (lines 85, 108, 114, 138): the lock can be taken by t.
MLockFree(t) == mlock = NONE

\* Fault of get_metrics: the snapshot is read without the lock.
ReaderNoLock(t) == TRUE

\* with self._lock (line 119): the lock can be taken by the reader t.
ReaderLockFree(t) == mlock = NONE

\* Fault of the handler's except clauses: only ValidationException is
\* handled.
HandlerClauseNarrow(e) ==
    IF e = "ValidationException" THEN "ValidationException" ELSE NONE

\* create_clinical_note, lines 157 and 164: the except clause of the outer
\* try that handles an exception of class e. HTTPException is an Exception
\* and not a ValidationException.
HandlerClause(e) ==
    IF e = "ValidationException" THEN "ValidationException" ELSE "Exception"

\* Line 116, "except exceptions as e": a raised object matches when its
\* class or one of its bases is listed. asyncio.CancelledError derives from
\* BaseException and not from Exception.
Mro(kind) ==
    CASE kind = "ConnectionError" ->
            {"ConnectionError", "OSError", "Exception", "BaseException"}
      [] kind = "ValueError" -> {"ValueError", "Exception", "BaseException"}
      [] kind = "CancelledError" -> {"CancelledError", "BaseException"}
      [] OTHER -> {}

\* Fault of the except clause: every Exception is caught, listed or not.
CatchesAnyException(exs, kind) == kind \in {"ConnectionError", "ValueError"}

\* Fault of the except clause: CancelledError is caught as well.
CatchesCancelled(exs, kind) ==
    \/ kind = "CancelledError"
    \/ (kind = "ConnectionError" /\ exs \cap {"ConnectionError", "Exception"} # {})
    \/ (kind = "ValueError" /\ exs \cap {"ValueError", "Exception"} # {})

Catches(exs, kind) == exs \cap Mro(kind) # {}

\* Fault of the loop: the last retry is given up.
ExhaustedEarly(a, retries) == a + 1 >= retries

\* Line 119: attempt == max_retries.
Exhausted(a, retries) == a = retries

\* Fault of the re-raise: the failure is wrapped in a new exception.
ReraiseWrapped(e) == [kind |-> "RuntimeError", id |-> e.id]

\* Line 123: a bare raise re-raises the exception being handled.
Reraise(e) == e

\* Line 131: delay = min(delay * backoff_factor, max_delay).
NextDelay(d, factor, cap) == IF d * factor <= cap THEN d * factor ELSE cap

\* A wrapper about to make its first attempt (lines 110-113, 137-140):
\* its locals, and the history of what it did.
StartRun(first) ==
    [attempt |-> 0, delay |-> first, last_exception |-> NoException,
     status |-> "running", invocations |-> 0, slept |-> << >>,
     result |-> NONE, propagated |-> NoException]

\* async_wrapper, lines 113-131: one iteration of the loop, func ending
\* with outcome o ("ok" or the class it raises).
AsyncAttempt(run, o) ==
    LET n == run.invocations + 1
        e == [kind |-> o, id |-> n]
    IN  IF o = "ok"
        THEN [run EXCEPT !.invocations = n, !.status = "returned",
                         !.result = n]
        ELSE IF exceptions \cap Mro(o) = {}
        THEN [run EXCEPT !.invocations = n, !.status = "raised",
                         !.propagated = e]
        ELSE IF run.attempt = max_retries
        THEN [run EXCEPT !.invocations = n, !.last_exception = e,
                         !.status = "raised", !.propagated = e]
        ELSE [run EXCEPT !.invocations = n, !.last_exception = e,
                         !.slept = Append(@, run.delay),
                         !.delay = IF run.delay * backoff_factor <= max_delay
                                   THEN run.delay * backoff_factor
                                   ELSE max_delay,
                         !.attempt = @ + 1]

\* Fault of sync_wrapper: the delay is never capped by max_delay.
SyncAttemptUncapped(run, o) ==
    LET r == AsyncAttempt(run, o) IN
    IF Len(r.slept) > Len(run.slept)
    THEN [r EXCEPT !.delay = run.delay * backoff_factor]
    ELSE r

\* sync_wrapper, lines 140-158: one iteration of the loop, func ending
\* with outcome o.
SyncAttempt(run, o) ==
    LET n == run.invocations + 1
        e == [kind |-> o, id |-> n]
    IN  IF o = "ok"
        THEN [run EXCEPT !.invocations = n, !.status = "returned",
                         !.result = n]
        ELSE IF exceptions \cap Mro(o) = {}
        THEN [run EXCEPT !.invocations = n, !.status = "raised",
                         !.propagated = e]
        ELSE IF run.attempt = max_retries
        THEN [run EXCEPT !.invocations = n, !.last_exception = e,
                         !.status = "raised", !.propagated = e]
        ELSE [run EXCEPT !.invocations = n, !.last_exception = e,
                         !.slept = Append(@, run.delay),
                         !.delay = IF run.delay * backoff_factor <= max_delay
                                   THEN run.delay * backoff_factor
                                   ELSE max_delay,
                         !.attempt = @ + 1]

\* Line 130, "await asyncio.sleep(delay)", suspends the coroutine and
\* hands the thread back to the event loop; line 157, "time.sleep(delay)",
\* keeps the calling thread for the whole delay.
SleepYields(async) == async

\* Line 115, "await func(...)", is a suspension point; line 142 runs
\* func on the calling thread.
CallYields(async) == async

\* The event-loop thread can run another task: the wrapper runs on
\* another thread, has finished, or is suspended.
LoopFree ==
    \/ ~on_loop
    \/ rpc \in {"returned", "raised"}
    \/ rpc = "sleeping" /\ SleepYields(is_async)
    \/ rpc = "calling" /\ CallYields(is_async)

\* call, lines 43-47: the seconds the CircuitBreakerError message names,
\* "Retry after {self.recovery_timeout} seconds.", for a rejection at t.
RetryAfterMessage(t, last) == recovery_timeout

\* Fault of _on_success: a successful probe does not close the breaker.
OnSuccessKeepsState(st) == st

\* _on_success, lines 82-83: the state after a success.
OnSuccessState(st) == IF st = "half-open" THEN "closed" ELSE st

\* CircuitBreaker.expected_exception as the breakers of the module are
\* built (lines 25, 173).
expected_exception == "Exception"

\* Fault of the except clause of call: every raised object is a failure.
IsExpectedAlways(kind) == TRUE

\* call, lines 53 and 75: "except self.expected_exception".
IsExpected(kind) == expected_exception \in Mro(kind)

\* Fault of _on_failure: > in place of >=.
ThresholdExceeded(count, threshold) == count > threshold

\* _on_failure, line 91.
ThresholdReached(count, threshold) == count >= threshold

\* global_exception_handler: status code chosen for an exception kind.
GlobalExceptionHandler(e) ==
    IF e.kind = "ValidationException" THEN 400
    ELSE IF e.kind = "ValueError" THEN 400
    ELSE IF e.kind = "TimeoutError" THEN 504
    ELSE 500

\* ------------------------------------------------------------------- Init
\* RateLimiter(requests_per_minute = limit), no request in progress.
RLStart(limit) ==
    /\ requests_per_minute = limit
    /\ requests = [c \in ClientIds |-> <<>>]
    /\ lock = NONE
    /\ pc = [t \in Threads |-> "idle"]
    /\ req = [t \in Threads |-> NoReq]
    /\ client_id = [t \in Threads |-> NONE]
    /\ current_time = [t \in Threads |-> 0]
    /\ total_requests = [t \in Threads |-> 0]
    /\ result = [t \in Threads |-> NoResult]
    /\ exc = [t \in Threads |-> NoExc]
    /\ resp = [t \in Threads |-> NoResp]
    /\ admitted = [c \in ClientIds |-> <<>>]
    /\ started = 0

\* CircuitBreaker(failure_threshold = threshold), no call in progress.
CBStart(threshold) ==
    /\ failure_threshold = threshold
    /\ state = "closed"
    /\ failure_count = 0
    /\ last_failure_time = NONE
    /\ cpc = [c \in Callers |-> "idle"]
    /\ entered = [c \in Callers |-> NONE]
    /\ outcome = [c \in Callers |-> NONE]
    /\ loaded = [c \in Callers |-> -1]
    /\ reported = [c \in Callers |-> NoReport]
    /\ consec = 0
    /\ calls = 0

\* The rate limiter and its middleware, for every configured limit.
\* The module-level MetricsCollector, and no request being handled.
HStart ==
    /\ metrics = NoMetrics
    /\ hpc = "idle"
    /\ start_time = -1
    /\ patient_ok = TRUE
    /\ hexc = NONE
    /\ hout = NONE
    /\ disconnected = FALSE
    /\ recorded = << >>
    /\ invoked = 0

\* No MetricsCollector call in progress.
MStart ==
    /\ mlock = NONE
    /\ mpc = [t \in Threads |-> "idle"]
    /\ margs = [t \in Threads |-> NoArgs]
    /\ mloaded = [t \in Threads |-> -1]
    /\ snapshot = NoSnapshot
    /\ hist = NoHist
    /\ snap_hist = NoHist
    /\ mops = 0

\* No second task has run; the side-by-side wrappers are those of the
\* decorator as configured with initial_delay first.
XStart(loop, first) ==
    /\ on_loop = loop
    /\ other_done = 0
    /\ async_run = StartRun(first)
    /\ sync_run = StartRun(first)

\* retry_with_backoff(...) applied to func and the wrapper entered,
\* lines 98-111 (137-138 for a plain function).
RTStart(retries, first, factor, cap, exs, async) ==
    /\ max_retries = retries
    /\ initial_delay = first
    /\ backoff_factor = factor
    /\ max_delay = cap
    /\ exceptions = exs
    /\ is_async = async
    /\ attempt = 0
    /\ delay = first
    /\ last_exception = NoException
    /\ rpc = "calling"
    /\ propagated = NoException
    /\ invocations = 0
    /\ slept = << >>
    /\ raised = NONE
    /\ cancel_seen = FALSE

\* The wrapper as generate_soap_note is decorated (pipecat_flow.py:160).
RTDefault ==
    RTStart(DefaultMaxRetries, DefaultInitialDelay, DefaultBackoffFactor,
            DefaultMaxDelay, DefaultExceptions, TRUE)

Init ==
    /\ now = 0
    /\ \E limit \in 0..MaxLimit : RLStart(limit)
    /\ CBStart(DefaultThreshold)
    /\ RTDefault
    /\ HStart
    /\ MStart
    /\ XStart(TRUE, DefaultInitialDelay)

\* The circuit breaker, for every configured threshold.
CBInit ==
    /\ now = 0
    /\ RLStart(DefaultLimit)
    /\ \E threshold \in 1..MaxThreshold : CBStart(threshold)
    /\ RTDefault
    /\ HStart
    /\ MStart
    /\ XStart(TRUE, DefaultInitialDelay)

\* The retry wrapper, for every configuration.
RetryInit ==
    /\ now = 0
    /\ RLStart(DefaultLimit)
    /\ CBStart(DefaultThreshold)
    /\ \E retries \in 0..MaxRetries, first \in 1..MaxDelaySecs,
          factor \in 1..MaxFactor, cap \in 1..MaxDelaySecs,
          exs \in ExceptionSets, async \in BOOLEAN :
            RTStart(retries, first, factor, cap, exs, async)
    /\ HStart
    /\ MStart
    /\ XStart(TRUE, DefaultInitialDelay)

\* The retry wrapper with a second task on the event loop: a coroutine
\* runs on the loop thread, a plain function is called from the loop
\* thread (from a coroutine, as every handler of the service is) or from
\* a worker thread.
RetryLoopInit ==
    /\ now = 0
    /\ RLStart(DefaultLimit)
    /\ CBStart(DefaultThreshold)
    /\ \E retries \in 0..MaxRetries, first \in 1..MaxDelaySecs,
          factor \in 1..MaxFactor, cap \in 1..MaxDelaySecs,
          exs \in ExceptionSets, async \in BOOLEAN, loop \in BOOLEAN :
            /\ async => loop
            /\ RTStart(retries, first, factor, cap, exs, async)
            /\ XStart(loop, first)
    /\ HStart
    /\ MStart

\* Both wrappers of one decorator, for every configuration.
EquivInit ==
    /\ now = 0
    /\ RLStart(DefaultLimit)
    /\ CBStart(DefaultThreshold)
    /\ \E retries \in 0..MaxRetries, first \in 1..MaxDelaySecs,
          factor \in 1..MaxFactor, cap \in 1..MaxDelaySecs,
          exs \in ExceptionSets :
            /\ RTStart(retries, first, factor, cap, exs, TRUE)
            /\ XStart(TRUE, first)
    /\ HStart
    /\ MStart

\* The handler and its metrics.
HandlerInit ==
    /\ now = 0
    /\ RLStart(DefaultLimit)
    /\ CBStart(DefaultThreshold)
    /\ RTDefault
    /\ HStart
    /\ MStart
    /\ XStart(TRUE, DefaultInitialDelay)

\* The collector as the module creates it (metrics_collector = ...).
MetricsInit ==
    /\ now = 0
    /\ RLStart(DefaultLimit)
    /\ CBStart(DefaultThreshold)
    /\ RTDefault
    /\ HStart
    /\ MStart
    /\ XStart(TRUE, DefaultInitialDelay)

\* ---------------------------------------------------------------- actions
\* The clock advances.
Tick ==
    /\ \E t \in Instants : t > now /\ now' = t
    /\ UNCHANGED <<xVars, rlVars, cbVars, rtVars, hVars, mVars>>

\* A request arrives at the middleware (lines 102-114).
Begin(t) ==
    /\ pc[t] \in {"idle", "done"}
    /\ started < MaxRequests
    /\ started' = started + 1
    /\ \E p \in Paths, k \in ApiKeys, h \in Hosts :
         LET r == [path |-> p, key |-> k, host |-> h] IN
         IF p \in ExemptPaths
         THEN /\ req' = [req EXCEPT ![t] = [NoReq EXCEPT !.path = p]]
              /\ pc' = [pc EXCEPT ![t] = "call_next"]
              /\ client_id' = [client_id EXCEPT ![t] = NONE]
         ELSE /\ req' = [req EXCEPT ![t] = r]
              /\ pc' = [pc EXCEPT ![t] = "is_allowed"]
              /\ client_id' = [client_id EXCEPT ![t] = ClientIdOf(r)]
    /\ result' = [result EXCEPT ![t] = NoResult]
    /\ exc' = [exc EXCEPT ![t] = NoExc]
    /\ resp' = [resp EXCEPT ![t] = NoResp]
    /\ current_time' = [current_time EXCEPT ![t] = 0]
    /\ total_requests' = [total_requests EXCEPT ![t] = 0]
    /\ UNCHANGED <<xVars, cbVars, rtVars, hVars, mVars, now, requests_per_minute, requests, lock, admitted>>

\* is_allowed, lines 47-54: take the lock, read the clock, purge the
\* client's old entries and sum the counts of the rest.
Acquire(t) ==
    /\ pc[t] = "is_allowed"
    /\ LockFree(t)
    /\ lock' = t
    /\ current_time' = [current_time EXCEPT ![t] = now]
    /\ LET kept == CleanOldRequests(requests[client_id[t]], now) IN
         /\ requests' = [requests EXCEPT ![client_id[t]] = kept]
         /\ total_requests' = [total_requests EXCEPT ![t] = SumCounts(kept)]
    /\ req' = [req EXCEPT ![t] = [NoReq EXCEPT !.path = req[t].path]]
    /\ pc' = [pc EXCEPT ![t] = "check"]
    /\ UNCHANGED <<xVars, cbVars, rtVars, hVars, mVars, now, requests_per_minute, client_id, result, exc, resp,
                   admitted, started>>

\* is_allowed, lines 56-67: deny, or append and admit; the lock is released.
Check(t) ==
    /\ pc[t] = "check"
    /\ IF LimitReached(total_requests[t], requests_per_minute)
       THEN /\ result' = [result EXCEPT ![t] =
                    [allowed |-> FALSE, remaining |-> 0, set |-> TRUE]]
            /\ pc' = [pc EXCEPT ![t] = "get_retry_after"]
            /\ UNCHANGED <<requests, admitted>>
       ELSE /\ requests' = [requests EXCEPT ![client_id[t]] =
                    Append(@, [ts |-> current_time[t], count |-> 1])]
            /\ admitted' = [admitted EXCEPT ![client_id[t]] =
                    Append(@, current_time[t])]
            /\ result' = [result EXCEPT ![t] =
                    [allowed |-> TRUE,
                     remaining |-> requests_per_minute - total_requests[t] - 1,
                     set |-> TRUE]]
            /\ pc' = [pc EXCEPT ![t] = "call_next"]
    /\ lock' = IF lock = t THEN NONE ELSE lock
    /\ total_requests' = [total_requests EXCEPT ![t] = 0]
    /\ UNCHANGED <<xVars, cbVars, rtVars, hVars, mVars, now, requests_per_minute, req, client_id,
                   current_time, exc, resp, started>>

\* Lines 119-125: get_retry_after (under the lock), then raise the 429.
RetryAfter(t) ==
    /\ pc[t] = "get_retry_after"
    /\ LockFree(t)
    /\ LET r == GetRetryAfter(requests[client_id[t]], now) IN
         exc' = [exc EXCEPT ![t] =
                [kind |-> "HTTPException", status |-> 429, retry_after |-> r]]
    /\ current_time' = [current_time EXCEPT ![t] = 0]
    /\ pc' = [pc EXCEPT ![t] = "raised"]
    /\ UNCHANGED <<xVars, cbVars, rtVars, hVars, mVars, now, requests_per_minute, requests, lock, req,
                   client_id, total_requests, result, resp, admitted, started>>

\* The HTTPException leaves the middleware.  LoggingMiddleware re-raises;
\* it is caught as an Exception (ErrorHandlerMiddleware, or the handler
\* main.py registers for Exception) and answered by global_exception_handler,
\* whose JSONResponse carries no headers of the exception.
HandleException(t) ==
    /\ pc[t] = "raised"
    /\ resp' = [resp EXCEPT ![t] =
            [status |-> GlobalExceptionHandler(exc[t]), retry_after |-> -1,
             handler |-> FALSE, remaining |-> -1]]
    /\ pc' = [pc EXCEPT ![t] = "done"]
    /\ UNCHANGED <<xVars, cbVars, rtVars, hVars, mVars, now, requests_per_minute, requests, lock, req,
                   client_id, current_time, total_requests, result, exc,
                   admitted, started>>

\* Lines 107 and 128-134: the rest of the chain and the route handler run;
\* a limited request gets the X-RateLimit-Remaining header.
CallNext(t) ==
    /\ pc[t] = "call_next"
    /\ resp' = [resp EXCEPT ![t] =
            [status |-> 200, retry_after |-> -1, handler |-> TRUE,
             remaining |-> IF result[t].set THEN result[t].remaining ELSE -1]]
    /\ current_time' = [current_time EXCEPT ![t] = 0]
    /\ pc' = [pc EXCEPT ![t] = "done"]
    /\ UNCHANGED <<xVars, cbVars, rtVars, hVars, mVars, now, requests_per_minute, requests, lock, req,
                   client_id, total_requests, result, exc, admitted, started>>

Next ==
    \/ Tick
    \/ \E t \in Threads : Begin(t)
    \/ \E t \in Threads : Acquire(t)
    \/ \E t \in Threads : Check(t)
    \/ \E t \in Threads : RetryAfter(t)
    \/ \E t \in Threads : HandleException(t)
    \/ \E t \in Threads : CallNext(t)

Spec == Init /\ [][Next]_vars

\* ------------------------------------------------- circuit breaker actions
\* call / call_async, lines 37-47 and 59-69: the check made on entry.
\* Open and recovered: half-open and go on; open otherwise: reject.
CallEnter(c) ==
    /\ cpc[c] \in {"idle", "done"}
    /\ calls < MaxCalls
    /\ calls' = calls + 1
    /\ IF state = "open"
       THEN IF RecoveryElapsed(now, last_failure_time)
            THEN /\ state' = "half-open"
                 /\ cpc' = [cpc EXCEPT ![c] = "awaiting"]
                 /\ entered' = [entered EXCEPT ![c] = "half-open"]
                 /\ outcome' = [outcome EXCEPT ![c] = NONE]
                 /\ reported' = [reported EXCEPT ![c] = NoReport]
            ELSE /\ state' = state
                 /\ cpc' = [cpc EXCEPT ![c] = "done"]
                 /\ entered' = [entered EXCEPT ![c] = NONE]
                 /\ outcome' = [outcome EXCEPT ![c] = "CircuitBreakerError"]
                 /\ reported' = [reported EXCEPT ![c] =
                        [retry_after |-> RetryAfterMessage(now, last_failure_time),
                         elapsed |-> now - last_failure_time]]
       ELSE /\ state' = state
            /\ cpc' = [cpc EXCEPT ![c] = "awaiting"]
            /\ entered' = [entered EXCEPT ![c] = state]
            /\ outcome' = [outcome EXCEPT ![c] = NONE]
            /\ reported' = [reported EXCEPT ![c] = NoReport]
    /\ UNCHANGED <<xVars, rlVars, rtVars, hVars, mVars, now, failure_threshold, failure_count,
                   last_failure_time, loaded, consec>>

\* Lines 50-52 and 72-74: func returns; _on_success (lines 79-84).
CallSucceeds(c) ==
    /\ cpc[c] = "awaiting"
    /\ failure_count' = 0
    /\ state' = OnSuccessState(state)
    /\ consec' = 0
    /\ cpc' = [cpc EXCEPT ![c] = "done"]
    /\ outcome' = [outcome EXCEPT ![c] = "returned"]
    /\ UNCHANGED <<xVars, rlVars, rtVars, hVars, mVars, now, failure_threshold, last_failure_time,
                   entered, loaded, reported, calls>>

\* Lines 53-55 and 75-77: func raises an expected_exception; _on_failure
\* (lines 86-95), and the exception is raised again.
CallFails(c) ==
    /\ cpc[c] = "awaiting"
    /\ failure_count' = failure_count + 1
    /\ last_failure_time' = now
    /\ state' = IF ThresholdReached(failure_count + 1, failure_threshold)
                THEN "open" ELSE state
    /\ consec' = consec + 1
    /\ cpc' = [cpc EXCEPT ![c] = "done"]
    /\ outcome' = [outcome EXCEPT ![c] = "raised"]
    /\ UNCHANGED <<xVars, rlVars, rtVars, hVars, mVars, now, failure_threshold, entered, loaded, reported,
                   calls>>

\* func raises something that is no Exception (a CancelledError): when
\* no except clause matches, the breaker is not touched.
CallRaisesOther(c) ==
    /\ cpc[c] = "awaiting"
    /\ cpc' = [cpc EXCEPT ![c] = "done"]
    /\ outcome' = [outcome EXCEPT ![c] = "raised-other"]
    /\ IF IsExpected("CancelledError")
       THEN /\ failure_count' = failure_count + 1
            /\ last_failure_time' = now
            /\ state' = IF ThresholdReached(failure_count + 1, failure_threshold)
                        THEN "open" ELSE state
            /\ consec' = consec + 1
       ELSE UNCHANGED <<state, failure_count, last_failure_time, consec>>
    /\ UNCHANGED <<xVars, rlVars, rtVars, hVars, mVars, now, failure_threshold,
                   entered, loaded, reported, calls>>

CBNext ==
    \/ Tick
    \/ \E c \in Callers : CallEnter(c)
    \/ \E c \in Callers : CallSucceeds(c)
    \/ \E c \in Callers : CallFails(c)
    \/ \E c \in Callers : CallRaisesOther(c)

CBSpec == CBInit /\ [][CBNext]_vars

\* The breaker in use: the clock runs, callers keep calling, and every
\* operation passed to call ends (returns or raises).
CBLiveSpec ==
    /\ CBInit
    /\ [][CBNext]_vars
    /\ WF_vars(Tick)
    /\ WF_vars(\E c \in Callers : CallEnter(c))
    /\ WF_vars(\E c \in Callers :
                   CallSucceeds(c) \/ CallFails(c) \/ CallRaisesOther(c))

\* ------------------------------------- circuit breaker called from threads
\* CircuitBreaker holds no lock, and "self.failure_count += 1" (line 88) is
\* a read followed by a write: between the two, other threads run.
\* Lines 53-54, 88: func raised an expected_exception; failure_count is read.
FailLoad(c) ==
    /\ cpc[c] = "awaiting"
    /\ loaded' = [loaded EXCEPT ![c] = failure_count]
    /\ cpc' = [cpc EXCEPT ![c] = "on_failure"]
    /\ UNCHANGED <<xVars, rlVars, rtVars, hVars, mVars, now, failure_threshold, state, failure_count,
                   last_failure_time, entered, outcome, reported, consec,
                   calls>>

\* Lines 88-95, 55: the sum is written, then the rest of _on_failure.
FailStore(c) ==
    /\ cpc[c] = "on_failure"
    /\ failure_count' = loaded[c] + 1
    /\ last_failure_time' = now
    /\ state' = IF ThresholdReached(loaded[c] + 1, failure_threshold)
                THEN "open" ELSE state
    /\ loaded' = [loaded EXCEPT ![c] = -1]
    /\ consec' = consec + 1
    /\ cpc' = [cpc EXCEPT ![c] = "done"]
    /\ outcome' = [outcome EXCEPT ![c] = "raised"]
    /\ UNCHANGED <<xVars, rlVars, rtVars, hVars, mVars, now, failure_threshold, entered, reported, calls>>

CBThreadNext ==
    \/ Tick
    \/ \E c \in Callers : CallEnter(c)
    \/ \E c \in Callers : CallSucceeds(c)
    \/ \E c \in Callers : FailLoad(c)
    \/ \E c \in Callers : FailStore(c)
    \/ \E c \in Callers : CallRaisesOther(c)

CBThreadSpec == CBInit /\ [][CBThreadNext]_vars

\* ------------------------------------------------------ retry_with_backoff
\* Lines 113-115 (140-142): func is invoked and returns.
OpReturns ==
    /\ rpc = "calling"
    /\ invocations' = invocations + 1
    /\ raised' = NONE
    /\ rpc' = "returned"
    /\ UNCHANGED <<xVars, now, rlVars, cbVars, hVars, mVars, max_retries, initial_delay,
                   backoff_factor, max_delay, exceptions, is_async, attempt,
                   delay, last_exception, propagated, slept, cancel_seen>>

\* Lines 113-128 (140-155): func is invoked and raises an object of class
\* kind; a coroutine can be cancelled while func is awaited.
OpRaises(kind) ==
    /\ rpc = "calling"
    /\ kind = "CancelledError" => is_async
    /\ invocations' = invocations + 1
    /\ raised' = kind
    /\ cancel_seen' = (cancel_seen \/ kind = "CancelledError")
    /\ LET e == [kind |-> kind, id |-> invocations + 1] IN
        IF Catches(exceptions, kind)
        THEN /\ last_exception' = e
             /\ IF Exhausted(attempt, max_retries)
                THEN /\ rpc' = "raised"
                     /\ propagated' = Reraise(e)
                ELSE /\ rpc' = "sleeping"
                     /\ propagated' = propagated
        ELSE /\ rpc' = "raised"
             /\ propagated' = e
             /\ last_exception' = last_exception
    /\ UNCHANGED <<xVars, now, rlVars, cbVars, hVars, mVars, max_retries, initial_delay,
                   backoff_factor, max_delay, exceptions, is_async, attempt,
                   delay, slept>>

\* Lines 130-133 (157-160): the sleep ends, delay is updated and the loop
\* goes on; past the last iteration last_exception is raised.
SleepDone ==
    /\ rpc = "sleeping"
    /\ slept' = Append(slept, delay)
    /\ delay' = NextDelay(delay, backoff_factor, max_delay)
    /\ IF attempt + 1 <= max_retries
       THEN /\ attempt' = attempt + 1
            /\ rpc' = "calling"
            /\ propagated' = propagated
       ELSE /\ attempt' = attempt
            /\ rpc' = "raised"
            /\ propagated' = last_exception
    /\ UNCHANGED <<xVars, now, rlVars, cbVars, hVars, mVars, max_retries, initial_delay,
                   backoff_factor, max_delay, exceptions, is_async,
                   last_exception, invocations, raised, cancel_seen>>

\* Line 130: the task is cancelled during "await asyncio.sleep(delay)";
\* the CancelledError is raised inside the except block and leaves the
\* wrapper.
SleepCancelled ==
    /\ rpc = "sleeping"
    /\ is_async
    /\ cancel_seen' = TRUE
    /\ rpc' = "raised"
    /\ propagated' = [kind |-> "CancelledError", id |-> 0]
    /\ UNCHANGED <<xVars, now, rlVars, cbVars, hVars, mVars, max_retries, initial_delay,
                   backoff_factor, max_delay, exceptions, is_async, attempt,
                   delay, last_exception, invocations, slept, raised>>

RetryNext ==
    \/ OpReturns
    \/ \E kind \in Kinds : OpRaises(kind)
    \/ SleepDone
    \/ SleepCancelled

RetrySpec == RetryInit /\ [][RetryNext]_vars

\* Another task of the event loop makes a step: the loop thread must be
\* free to run it.
OtherTaskRuns ==
    /\ other_done < MaxOtherSteps
    /\ LoopFree
    /\ other_done' = other_done + 1
    /\ UNCHANGED <<now, rlVars, cbVars, rtVars, hVars, mVars, on_loop,
                   async_run, sync_run>>

RetryLoopNext ==
    \/ OpReturns
    \/ \E kind \in Kinds : OpRaises(kind)
    \/ SleepDone
    \/ SleepCancelled
    \/ OtherTaskRuns

RetryLoopSpec == RetryLoopInit /\ [][RetryLoopNext]_vars

\* async_wrapper and sync_wrapper of one decorator each make their next
\* attempt, func ending the same way for both; a wrapper that has
\* returned or raised makes none.
BothAttempt(o) ==
    /\ async_run.status = "running" \/ sync_run.status = "running"
    /\ async_run' = IF async_run.status = "running"
                    THEN AsyncAttempt(async_run, o) ELSE async_run
    /\ sync_run' = IF sync_run.status = "running"
                   THEN SyncAttempt(sync_run, o) ELSE sync_run
    /\ UNCHANGED <<now, rlVars, cbVars, rtVars, hVars, mVars, on_loop,
                   other_done>>

EquivNext == \E o \in {"ok"} \cup Kinds : BothAttempt(o)

EquivSpec == EquivInit /\ [][EquivNext]_vars

\* ---------------------------------------------------- create_clinical_note
\* app.py lines 113-119: the handler is entered.
HEnter(ok) ==
    /\ hpc = "idle"
    /\ invoked < MaxInvocations
    /\ invoked' = invoked + 1
    /\ start_time' = now
    /\ patient_ok' = ok
    /\ metrics' = IncrementActiveSessions(metrics)
    /\ hpc' = "validate"
    /\ hexc' = NONE
    /\ hout' = NONE
    /\ disconnected' = FALSE
    /\ recorded' = << >>
    /\ UNCHANGED <<xVars, now, rlVars, cbVars, rtVars, mVars>>

\* Lines 121-126: validate_patient_data; its ValidationException is
\* replaced by HTTPException(400) inside the outer try.
HValidate ==
    /\ hpc = "validate"
    /\ IF patient_ok
       THEN hpc' = "generate" /\ hexc' = hexc
       ELSE hpc' = "except" /\ hexc' = "HTTPException(400)"
    /\ UNCHANGED <<xVars, now, rlVars, cbVars, rtVars, mVars, metrics, start_time,
                   patient_ok, hout, disconnected, recorded, invoked>>

\* Lines 128-155: the placeholder note, record_request(success=True) and
\* the response.
HRespond ==
    /\ hpc = "generate"
    /\ metrics' = RecordRequest(metrics, TRUE, now - start_time)
    /\ recorded' = Append(recorded, TRUE)
    /\ hout' = "ClinicalNoteResponse"
    /\ hpc' = "finally"
    /\ UNCHANGED <<xVars, now, rlVars, cbVars, rtVars, mVars, start_time, patient_ok, hexc,
                   disconnected, invoked>>

\* Lines 157-175: the except clauses. A ValidationException gives 400;
\* any other Exception, HTTPException(400) included, gives 500.
HExcept ==
    /\ hpc = "except"
    /\ IF HandlerClause(hexc) = NONE
       THEN /\ metrics' = metrics
            /\ recorded' = recorded
            /\ hout' = hexc
       ELSE /\ metrics' = RecordRequest(metrics, FALSE, now - start_time)
            /\ recorded' = Append(recorded, FALSE)
            /\ hout' = IF HandlerClause(hexc) = "ValidationException"
                       THEN "HTTPException(400)" ELSE "HTTPException(500)"
    /\ hpc' = "finally"
    /\ UNCHANGED <<xVars, now, rlVars, cbVars, rtVars, mVars, start_time, patient_ok, hexc,
                   disconnected, invoked>>

\* Lines 177-179: finally.
HFinally ==
    /\ hpc = "finally"
    /\ metrics' = DecrementActiveSessions(metrics)
    /\ hpc' = "idle"
    /\ UNCHANGED <<xVars, now, rlVars, cbVars, rtVars, mVars, start_time, patient_ok, hexc,
                   hout, disconnected, recorded, invoked>>

\* The client gives the request up while the handler runs. The task can
\* be cancelled only at an await, and lines 113-179 contain none: the
\* handler goes on as it would have.
ClientDisconnects ==
    /\ hpc \in {"validate", "generate", "except", "finally"}
    /\ ~disconnected
    /\ disconnected' = TRUE
    /\ UNCHANGED <<xVars, now, rlVars, cbVars, rtVars, mVars, metrics, hpc, start_time,
                   patient_ok, hexc, hout, recorded, invoked>>

HandlerNext ==
    \/ Tick
    \/ \E ok \in BOOLEAN : HEnter(ok)
    \/ HValidate
    \/ HRespond
    \/ HExcept
    \/ HFinally
    \/ ClientDisconnects

HandlerSpec == HandlerInit /\ [][HandlerNext]_vars

\* ------------------------------------------- MetricsCollector from threads
\* The history after one more completed record_request.
HistRecord(h, success, latency) ==
    [h EXCEPT !.ok = IF success THEN @ + 1 ELSE @,
              !.failed = IF success THEN @ ELSE @ + 1,
              !.lat[latency] = @ + 1]

\* The lock is given back by its holder.
MRelease(t) == IF mlock = t THEN NONE ELSE mlock

\* record_request, lines 85-86: the lock is taken and total_requests read.
RecBegin(t, success, latency) ==
    /\ mpc[t] = "idle"
    /\ mops < MaxMetricOps
    /\ MLockFree(t)
    /\ mlock' = t
    /\ mops' = mops + 1
    /\ margs' = [margs EXCEPT ![t] = [success |-> success, latency |-> latency]]
    /\ mloaded' = [mloaded EXCEPT ![t] = metrics.total_requests]
    /\ mpc' = [mpc EXCEPT ![t] = "rec_total"]
    /\ UNCHANGED <<xVars, now, rlVars, cbVars, rtVars, hVars, snapshot, hist,
                   snap_hist>>

\* Line 86: total_requests is written.
RecTotal(t) ==
    /\ mpc[t] = "rec_total"
    /\ metrics' = [metrics EXCEPT !.total_requests = mloaded[t] + 1]
    /\ mloaded' = [mloaded EXCEPT ![t] = -1]
    /\ mpc' = [mpc EXCEPT ![t] = "rec_outcome"]
    /\ UNCHANGED <<xVars, now, rlVars, cbVars, rtVars, hLocals, mlock, margs,
                   snapshot, hist, snap_hist, mops>>

\* Lines 87-90: successful_requests or failed_requests.
RecOutcome(t) ==
    /\ mpc[t] = "rec_outcome"
    /\ metrics' = IF margs[t].success
                  THEN [metrics EXCEPT !.successful_requests = @ + 1]
                  ELSE [metrics EXCEPT !.failed_requests = @ + 1]
    /\ mpc' = [mpc EXCEPT ![t] = "rec_latency"]
    /\ UNCHANGED <<xVars, now, rlVars, cbVars, rtVars, hLocals, mlock, margs,
                   mloaded, snapshot, hist, snap_hist, mops>>

\* Line 92: total_latency_ms.
RecLatency(t) ==
    /\ mpc[t] = "rec_latency"
    /\ metrics' = [metrics EXCEPT !.total_latency = @ + margs[t].latency]
    /\ mpc' = [mpc EXCEPT ![t] = "rec_count"]
    /\ UNCHANGED <<xVars, now, rlVars, cbVars, rtVars, hLocals, mlock, margs,
                   mloaded, snapshot, hist, snap_hist, mops>>

\* Line 93: request_count_for_latency; the lock is released.
RecEnd(t) ==
    /\ mpc[t] = "rec_count"
    /\ metrics' = [metrics EXCEPT !.request_count_for_latency = @ + 1]
    /\ hist' = HistRecord(hist, margs[t].success, margs[t].latency)
    /\ mlock' = MRelease(t)
    /\ margs' = [margs EXCEPT ![t] = NoArgs]
    /\ mpc' = [mpc EXCEPT ![t] = "idle"]
    /\ UNCHANGED <<xVars, now, rlVars, cbVars, rtVars, hLocals, mloaded, snapshot,
                   snap_hist, mops>>

\* increment_active_sessions, lines 106-110.
IncSessions(t) ==
    /\ mpc[t] = "idle"
    /\ mops < MaxMetricOps
    /\ MLockFree(t)
    /\ mops' = mops + 1
    /\ metrics' = IncrementActiveSessions(metrics)
    /\ hist' = [hist EXCEPT !.sessions = @ + 1]
    /\ UNCHANGED <<xVars, now, rlVars, cbVars, rtVars, hLocals, mlock, mpc, margs,
                   mloaded, snapshot, snap_hist>>

\* decrement_active_sessions, lines 112-115.
DecSessions(t) ==
    /\ mpc[t] = "idle"
    /\ mops < MaxMetricOps
    /\ MLockFree(t)
    /\ mops' = mops + 1
    /\ metrics' = DecrementActiveSessions(metrics)
    /\ hist' = [hist EXCEPT !.decrements = @ + 1]
    /\ UNCHANGED <<xVars, now, rlVars, cbVars, rtVars, hLocals, mlock, mpc, margs,
                   mloaded, snapshot, snap_hist>>

\* reset_metrics, lines 136-139.
Reset(t) ==
    /\ mpc[t] = "idle"
    /\ mops < MaxMetricOps
    /\ MLockFree(t)
    /\ mops' = mops + 1
    /\ metrics' = ResetMetrics(metrics)
    /\ hist' = HistReset(hist, metrics)
    /\ UNCHANGED <<xVars, now, rlVars, cbVars, rtVars, hLocals, mlock, mpc, margs,
                   mloaded, snapshot, snap_hist>>

\* get_metrics, lines 117-134.
Snapshot(t) ==
    /\ mpc[t] = "idle"
    /\ mops < MaxMetricOps
    /\ ReaderLockFree(t)
    /\ mops' = mops + 1
    /\ snapshot' = GetMetrics(metrics)
    /\ snap_hist' = hist
    /\ UNCHANGED <<xVars, now, rlVars, cbVars, rtVars, hVars, mlock, mpc, margs,
                   mloaded, hist>>

MetricsNext ==
    \/ \E t \in Threads, success \in BOOLEAN, latency \in Latencies :
          RecBegin(t, success, latency)
    \/ \E t \in Threads : RecTotal(t)
    \/ \E t \in Threads : RecOutcome(t)
    \/ \E t \in Threads : RecLatency(t)
    \/ \E t \in Threads : RecEnd(t)
    \/ \E t \in Threads : IncSessions(t)
    \/ \E t \in Threads : DecSessions(t)
    \/ \E t \in Threads : Reset(t)
    \/ \E t \in Threads : Snapshot(t)

MetricsSpec == MetricsInit /\ [][MetricsNext]_vars

\* ---------------------------------------- MetricsCollector, one caller
\* record_request, lines 83-93, by a caller that nothing interrupts.
SeqRecord(success, latency) ==
    /\ hist.ok + hist.failed < MaxRecords
    /\ metrics' = RecordRequest(metrics, success, latency)
    /\ hist' = HistRecord(hist, success, latency)
    /\ snapshot' = NoSnapshot
    /\ snap_hist' = NoHist
    /\ UNCHANGED <<xVars, now, rlVars, cbVars, rtVars, hLocals, mlock, mpc, margs,
                   mloaded, mops>>

\* reset_metrics after at least one call.
SeqReset ==
    /\ hist.ok + hist.failed > 0
    /\ metrics' = ResetMetrics(metrics)
    /\ hist' = HistReset(hist, metrics)
    /\ snapshot' = NoSnapshot
    /\ snap_hist' = NoHist
    /\ UNCHANGED <<xVars, now, rlVars, cbVars, rtVars, hLocals, mlock, mpc, margs,
                   mloaded, mops>>

\* get_metrics.
SeqSnapshot ==
    /\ ~snapshot.taken
    /\ snapshot' = GetMetrics(metrics)
    /\ snap_hist' = hist
    /\ UNCHANGED <<xVars, now, rlVars, cbVars, rtVars, hVars, mlock, mpc, margs,
                   mloaded, hist, mops>>

DerivedNext ==
    \/ \E success \in BOOLEAN, latency \in Latencies :
          SeqRecord(success, latency)
    \/ SeqReset
    \/ SeqSnapshot

DerivedSpec == MetricsInit /\ [][DerivedNext]_vars

\* ==================================================================
\* Properties of the rate limiter and its middleware (under Spec)
\* ==================================================================

\* Number of the times in history h that lie in the window ending at t.
InWindow(h, t) ==
    Cardinality({ j \in DOMAIN h : h[j] > t - WindowTicks /\ h[j] <= t })

\* Number of the times in history h that have left the window ending at t.
AgedOut(h, t) == Cardinality({ j \in DOMAIN h : h[j] <= t - WindowTicks })

\* Thread t has just been denied by is_allowed.
Denied(t) == pc[t] = "get_retry_after"

\* C1: for a limit N >= 1, no admission of a client is the (N+1)-th inside
\* one window of W seconds: every admission, together with the admissions
\* of the same client in the window that ends with it, makes at most N, so
\* the call that follows N admissions inside their window was denied.
C1_NextInWindowDenied ==
    requests_per_minute >= 1 =>
        \A c \in ClientIds : \A i \in DOMAIN admitted[c] :
            InWindow(admitted[c], admitted[c][i]) <= requests_per_minute

\* A client that has N admissions inside the current window is denied.
C1_Witness ==
    \E t \in Threads :
        /\ Denied(t)
        /\ requests_per_minute >= 1
        /\ InWindow(admitted[client_id[t]], now) = requests_per_minute

\* C2: in every reachable state, whatever the interleaving of the threads
\* in is_allowed, the counts of a client's entries inside the trailing
\* window sum to at most requests_per_minute.
C2_WindowSumWithinLimit ==
    \A c \in ClientIds :
        SumCounts(CleanOldRequests(requests[c], now)) <= requests_per_minute

\* One thread holds the lock with room for one more request of a client
\* while another thread waits to check the same client.
C2_Witness ==
    \E t, u \in Threads :
        /\ t # u
        /\ pc[t] = "check" /\ lock = t
        /\ pc[u] = "is_allowed" /\ client_id[u] = client_id[t]
        /\ requests_per_minute >= 1
        /\ total_requests[t] = requests_per_minute - 1

\* C3: an is_allowed call made when k of the client's admissions have aged
\* out of the window admits the request exactly when the admissions still
\* inside the window (all of them less k) are fewer than the limit, and
\* then reports limit - (all - k) - 1 as remaining: the capacity is the one
\* without ageing plus k.
C3_CapacityRestoredByAgedOut ==
    [][\A t \in Threads :
        (pc[t] = "check" /\ pc'[t] # "check") =>
            LET h == admitted[client_id[t]]
                k == AgedOut(h, current_time[t])
                inside == Len(h) - k
            IN  /\ result'[t].allowed = (inside < requests_per_minute)
                /\ result'[t].allowed =>
                      result'[t].remaining = requests_per_minute - inside - 1
       ]_vars

\* A request admitted only because an older admission aged out, while a
\* younger one is still counted.
C3_Witness ==
    \E t \in Threads :
        /\ pc[t] = "call_next" /\ result[t].set /\ result[t].allowed
        /\ Len(admitted[client_id[t]]) > requests_per_minute
        /\ Len(requests[client_id[t]]) >= 2

\* C4: the remaining value returned by is_allowed is never negative.
C4_RemainingNonNegative ==
    \A t \in Threads : result[t].set => result[t].remaining >= 0

\* The last request the limit allows is admitted with remaining 0.
C4_Witness ==
    \E t \in Threads :
        result[t].set /\ result[t].allowed /\ result[t].remaining = 0

\* C5: whenever is_allowed has just denied a client, get_retry_after for
\* that client returns a value in (0, 60].  Stated for the case that favours
\* it most: a limit of at least 1 (the client has entries) and the clock
\* not having moved since the denial.
C5_RetryAfterPositive ==
    [][\A t \in Threads :
        (Denied(t) /\ pc'[t] = "raised" /\ requests_per_minute >= 1
            /\ current_time[t] = now) =>
            exc'[t].retry_after \in 1..window_size
       ]_vars

\* C6 as stated: with requests_per_minute = 0 every request is admitted.
C6_ZeroDisablesLimiter ==
    requests_per_minute = 0 =>
        \A t \in Threads : result[t].set => result[t].allowed

\* C6 amended: with requests_per_minute = 0 every is_allowed call is denied
\* with (False, 0).
C6_ZeroDeniesAll ==
    requests_per_minute = 0 =>
        \A t \in Threads :
            result[t].set => ~result[t].allowed /\ result[t].remaining = 0

\* A request is denied under a limit of 0.
C6_Witness ==
    requests_per_minute = 0 /\ \E t \in Threads : Denied(t)

\* C7: a request denied by the limiter is answered with status 429 and a
\* Retry-After header holding get_retry_after's value, and the route
\* handler does not run.
C7_DenialAnsweredWith429 ==
    \A t \in Threads :
        (pc[t] = "done" /\ exc[t].kind = "HTTPException") =>
            /\ resp[t].status = 429
            /\ resp[t].retry_after = exc[t].retry_after
            /\ ~resp[t].handler

\* C8: is_allowed is called with a non-empty client identifier: the API
\* key if present and non-empty, else the source address, else "unknown";
\* and the handler of a non-exempt path runs only after an admission.
C8_NoBypass ==
    \A t \in Threads :
        /\ pc[t] = "is_allowed" =>
              /\ client_id[t] \notin {NONE, ""}
              /\ client_id[t] =
                    IF req[t].key \notin {NONE, ""} THEN req[t].key
                    ELSE IF req[t].host \notin {NONE, ""} THEN req[t].host
                    ELSE "unknown"
        /\ (resp[t].handler /\ req[t].path \notin ExemptPaths) =>
              result[t].set /\ result[t].allowed

\* A request with no identifier is denied under the "unknown" bucket.
C8_Witness ==
    \E t \in Threads : Denied(t) /\ client_id[t] = "unknown"

\* ==================================================================
\* Properties of the circuit breaker (under CBSpec)
\* ==================================================================

\* C9: while the breaker is closed, a qualifying failure opens it exactly
\* when it is the failure_threshold-th consecutive one; an earlier one
\* leaves it closed.
C9_OpensAtThreshold ==
    [][(state = "closed" /\ consec' = consec + 1) =>
        /\ state' \in {"closed", "open"}
        /\ (state' = "open") = (consec' = failure_threshold)
       ]_vars

\* The breaker has opened on the last of several consecutive failures.
C9_Witness ==
    /\ state = "open"
    /\ failure_threshold > 1
    /\ consec = failure_threshold
    /\ failure_count = failure_threshold

\* C10: at most one call admitted in the half-open state is in flight.
C10_SingleProbe ==
    Cardinality({ c \in Callers :
        cpc[c] = "awaiting" /\ entered[c] = "half-open" }) <= 1

\* C11: no increment of failure_count is lost between threads: once
\* failure_threshold qualifying failures have been recorded with no success
\* between them, the breaker is no longer closed.
C11_NoLostFailure ==
    consec >= failure_threshold => state # "closed"

\* C12: a call made while the breaker is open and less than
\* recovery_timeout has passed since the last failure is rejected with
\* CircuitBreakerError; func is not invoked and state, failure_count and
\* last_failure_time stay as they are.
C12_RejectedWhileOpen ==
    [][(calls' = calls + 1 /\ state = "open"
            /\ now - last_failure_time < RecoveryTicks) =>
        /\ state' = state
        /\ failure_count' = failure_count
        /\ last_failure_time' = last_failure_time
        /\ \A c \in Callers : cpc'[c] = "awaiting" => cpc[c] = "awaiting"
        /\ \E c \in Callers :
              /\ cpc[c] # "awaiting" /\ cpc'[c] = "done"
              /\ outcome'[c] = "CircuitBreakerError"
       ]_vars

\* A call has been rejected some time after the failure that opened the
\* breaker.
C12_Witness ==
    \E c \in Callers :
        /\ outcome[c] = "CircuitBreakerError"
        /\ state = "open"
        /\ reported[c].elapsed > 0

\* C13: the seconds named by CircuitBreakerError are recovery_timeout less
\* the time that had passed since the last failure when the call was
\* rejected.
C13_ReportsRemainingWait ==
    \A c \in Callers :
        outcome[c] = "CircuitBreakerError" =>
            reported[c].retry_after * TicksPerSec =
                RecoveryTicks - reported[c].elapsed

\* C14: a qualifying failure recorded while the breaker is half-open
\* leaves it open.
C14_FailedProbeReopens ==
    [][(state = "half-open" /\ consec' = consec + 1) => state' = "open"]_vars

\* Powers of the backoff factor, and the smaller of two delays.
RECURSIVE Pow(_, _)
Pow(b, n) == IF n = 0 THEN 1 ELSE b * Pow(b, n - 1)
Min(a, b) == IF a <= b THEN a ELSE b

\* The wrapper gave up: its last invocation raised a listed class and,
\* with no cancellation, an exception left the wrapper.
GaveUp ==
    /\ rpc = "raised"
    /\ ~cancel_seen
    /\ raised # NONE
    /\ exceptions \cap Mro(raised) # {}

\* C15 as stated: a wrapper configured with a maximum of 3 invokes func at
\* most 3 times.
C15_AtMostThreeInvocations ==
    max_retries = DefaultMaxRetries => invocations <= DefaultMaxRetries

\* C15, amended: func is invoked at most max_retries + 1 times, and exactly
\* max_retries + 1 times when every invocation raises a listed class.
C15_AtMostRetriesPlusOne ==
    /\ invocations <= max_retries + 1
    /\ GaveUp => invocations = max_retries + 1

\* The default of 3 retries, every invocation failing: 4 invocations.
C15_Witness ==
    /\ max_retries = DefaultMaxRetries
    /\ GaveUp
    /\ invocations = DefaultMaxRetries + 1

\* C16: the exception that leaves the wrapper after the attempts are
\* exhausted is the object raised by the last invocation: its class and its
\* identity, not an earlier attempt's and not a wrapper.
C16_LastExceptionPropagated ==
    GaveUp => propagated = [kind |-> raised, id |-> invocations]

\* Exhaustion after at least one retry, so first and last failure differ.
C16_Witness ==
    /\ GaveUp
    /\ invocations >= 2
    /\ propagated.id = invocations

\* C17: when an invocation raises a class that is not listed (and is not a
\* cancellation), that exception leaves the wrapper in the same step: no
\* sleep follows and func is not invoked again.
C17_NonRetryablePropagates ==
    [][(/\ invocations' = invocations + 1
        /\ raised' \in {"ConnectionError", "ValueError"}
        /\ exceptions \cap Mro(raised') = {}) =>
            /\ rpc' = "raised"
            /\ propagated' = [kind |-> raised', id |-> invocations']
            /\ slept' = slept
       ]_vars

\* A class that is not listed was raised by a retry and left the wrapper.
C17_Witness ==
    /\ rpc = "raised"
    /\ raised = "ValueError"
    /\ exceptions = {"ConnectionError"}
    /\ invocations >= 2
    /\ Len(slept) = invocations - 1
    /\ propagated = [kind |-> "ValueError", id |-> invocations]

\* C18: the i-th delay slept is min(initial_delay * backoff_factor^(i-1),
\* max_delay), so no delay, the first included, exceeds max_delay.
C18_DelayFormula ==
    \A i \in 1..Len(slept) :
        slept[i] = Min(initial_delay * Pow(backoff_factor, i - 1), max_delay)

\* C19: a cancellation that reaches the async wrapper, during an attempt
\* or during the backoff sleep, leaves it as CancelledError, and func is
\* not invoked after it.
C19_NoInvocationAfterCancel ==
    [][/\ cancel_seen' =>
            rpc' = "raised" /\ propagated'.kind = "CancelledError"
       /\ cancel_seen => invocations' = invocations
      ]_vars

\* Cancelled during an attempt with the default except clause and retries
\* left.
C19_Witness ==
    /\ cancel_seen
    /\ raised = "CancelledError"
    /\ exceptions = DefaultExceptions
    /\ invocations <= max_retries
    /\ rpc = "raised"

\* C20: an invocation of create_clinical_note whose request was given up
\* while the handler ran has made exactly one record_request(success=False)
\* call by the time it ends.
C20_CancelledRecordsOneFailure ==
    (hpc = "idle" /\ invoked > 0 /\ disconnected) =>
        recorded = <<FALSE>>

\* C26: every invocation of create_clinical_note makes exactly one
\* record_request call, with success=True exactly when the handler returns
\* a response and success=False when it raises.
C26_OutcomeRecordedOnce ==
    /\ Len(recorded) <= 1
    /\ (invoked > 0 /\ hpc \in {"finally", "idle"}) =>
          /\ Len(recorded) = 1
          /\ recorded[1] = (hout = "ClinicalNoteResponse")

\* An invocation that raised has ended with its one failure recorded.
C26_Witness ==
    /\ hpc = "idle" /\ invoked > 0
    /\ hout # "ClinicalNoteResponse"
    /\ recorded = <<FALSE>>
    /\ metrics.failed_requests >= 1

\* C27: an invocation in which validate_patient_data raised
\* ValidationException ends with HTTP 400.
C27_ValidationGives400 ==
    (hpc = "idle" /\ invoked > 0 /\ ~patient_ok) =>
        hout = "HTTPException(400)"

\* The reference algorithm of the limiter. Entries of a window kept at time
\* t when an entry aged exactly W stays, and when it is dropped.
KeepAgedW(entries, t) ==
    SelectSeq(entries, LAMBDA e : e.ts >= t - WindowTicks)
DropAgedW(entries, t) ==
    SelectSeq(entries, LAMBDA e : e.ts > t - WindowTicks)

RECURSIVE RefSum(_)
RefSum(entries) ==
    IF Len(entries) = 0 THEN 0
    ELSE entries[Len(entries)].count + RefSum(SubSeq(entries, 1, Len(entries) - 1))

\* Every step of is_allowed is the step of the reference algorithm that
\* purges with Keep: (a) purge, (b) sum, (c) deny with (False, 0) and no new
\* entry, or append (now, 1) and admit with N - sum - 1.
IsAllowedAsReference(Keep(_, _)) ==
    \A t \in Threads :
        LET c == client_id[t] IN
        /\ (pc[t] = "is_allowed" /\ pc'[t] = "check") =>
              /\ requests'[c] = Keep(requests[c], now)
              /\ total_requests'[t] = RefSum(Keep(requests[c], now))
        /\ (pc[t] = "check" /\ pc'[t] # "check") =>
              LET sum == RefSum(requests[c]) IN
              IF sum >= requests_per_minute
              THEN /\ result'[t] =
                        [allowed |-> FALSE, remaining |-> 0, set |-> TRUE]
                   /\ requests'[c] = requests[c]
              ELSE /\ result'[t] =
                        [allowed |-> TRUE,
                         remaining |-> requests_per_minute - sum - 1,
                         set |-> TRUE]
                   /\ requests'[c] =
                        Append(requests[c],
                               [ts |-> current_time[t], count |-> 1])

\* C28 as stated: is_allowed is the reference algorithm in which an entry
\* aged exactly W is not dropped.
C28_ReferenceKeepingAgedW == [][IsAllowedAsReference(KeepAgedW)]_vars

\* C28, amended: is_allowed is the reference algorithm in which an entry
\* aged W or more is dropped.
C28_ReferenceDroppingAgedW == [][IsAllowedAsReference(DropAgedW)]_vars

\* A call of is_allowed has purged an entry aged exactly W.
C28_Witness ==
    \E t \in Threads :
        /\ pc[t] = "check"
        /\ current_time[t] = now
        /\ \E i \in DOMAIN admitted[client_id[t]] :
              admitted[client_id[t]][i] = now - WindowTicks
        /\ \A i \in DOMAIN requests[client_id[t]] :
              requests[client_id[t]][i].ts > now - WindowTicks

\* C29: get_retry_after returns W less the age of the client's oldest
\* entry that is still inside the window, truncated to seconds and floored
\* at 0, and 0 when no entry is inside it.
C29_OldestSurvivingEntry ==
    [][\A t \in Threads :
        (pc[t] = "get_retry_after" /\ pc'[t] = "raised") =>
            LET inside == DropAgedW(requests[client_id[t]], now)
                oldest == CHOOSE m \in {inside[i].ts : i \in DOMAIN inside} :
                              \A i \in DOMAIN inside : m <= inside[i].ts
            IN  exc'[t].retry_after =
                    IF Len(inside) = 0 THEN 0
                    ELSE Max(0, IntSeconds(WindowTicks - (now - oldest)))
       ]_vars

\* C30: is_allowed ends with a return value and no exception; when the
\* client's entries inside the window already sum to the limit the value
\* is (False, 0) and no entry of any client is added or removed.
C30_DenialIsReturnValue ==
    [][\A t \in Threads :
        (pc[t] = "check" /\ pc'[t] # "check") =>
            /\ pc'[t] \in {"get_retry_after", "call_next"}
            /\ result'[t].set
            /\ exc'[t] = NoExc
            /\ RefSum(DropAgedW(requests[client_id[t]], current_time[t]))
                    >= requests_per_minute =>
                  /\ result'[t] =
                        [allowed |-> FALSE, remaining |-> 0, set |-> TRUE]
                  /\ requests' = requests
                  /\ admitted' = admitted
       ]_vars

\* A client with a full window has been denied twice, its window as it
\* was after the last admission.
C30_Witness ==
    \E t \in Threads :
        /\ pc[t] = "get_retry_after"
        /\ result[t] = [allowed |-> FALSE, remaining |-> 0, set |-> TRUE]
        /\ requests_per_minute >= 1
        /\ Len(requests[client_id[t]]) = requests_per_minute
        /\ \E u \in Threads \ {t} :
              /\ client_id[u] = client_id[t]
              /\ pc[u] \in {"get_retry_after", "raised", "done"}
              /\ result[u].set /\ ~result[u].allowed

\* Sum of the latencies and number of the record_request calls of a history.
RECURSIVE LatencySum(_, _)
LatencySum(h, ls) ==
    IF ls = {} THEN 0
    ELSE LET l == CHOOSE x \in ls : TRUE
         IN  l * h.lat[l] + LatencySum(h, ls \ {l})
Recorded(h) == h.ok + h.failed

\* C21: active_sessions is never negative, in the collector and in every
\* snapshot, whatever the order of increments, decrements and resets.
C21_ActiveSessionsNotNegative ==
    /\ metrics.active_sessions >= 0
    /\ snapshot.taken => snapshot.active_sessions >= 0

\* More decrements than increments have been made since the last reset.
C21_Witness ==
    /\ hist.decrements > hist.sessions
    /\ hist.sessions >= 1
    /\ metrics.active_sessions = 0

\* C22: every snapshot has total_requests = successful_requests +
\* failed_requests, and its average latency is the quotient of the latency
\* sum and the count of the calls completed when it was taken.
C22_SnapshotNotTorn ==
    snapshot.taken =>
        /\ snapshot.total_requests =
                snapshot.successful_requests + snapshot.failed_requests
        /\ snapshot.average_latency_ms =
                IF Recorded(snap_hist) = 0 THEN [num |-> 0, den |-> 1]
                ELSE Ratio(LatencySum(snap_hist, Latencies), Recorded(snap_hist))

\* A snapshot was taken between two record_request calls, and the second
\* call, holding the lock, has written total_requests and not yet the
\* outcome counter.
C22_Witness ==
    /\ snapshot.taken
    /\ snapshot.total_requests >= 1
    /\ \E t \in Threads :
          /\ mlock = t
          /\ mpc[t] = "rec_outcome"
          /\ metrics.total_requests #
                metrics.successful_requests + metrics.failed_requests

\* C23: a snapshot reflects every mutation completed before it was taken:
\* its request counters are the numbers of completed record_request calls
\* and its total_sessions the number of completed increments since the
\* last reset.
C23_SnapshotReflectsCompleted ==
    snapshot.taken =>
        /\ snapshot.total_requests = Recorded(snap_hist)
        /\ snapshot.successful_requests = snap_hist.ok
        /\ snapshot.failed_requests = snap_hist.failed
        /\ snapshot.total_sessions = snap_hist.sessions

\* A snapshot after record_request and increment_active_sessions calls of
\* both kinds have completed.
C23_Witness ==
    /\ snapshot.taken
    /\ snap_hist.sessions >= 1
    /\ Recorded(snap_hist) >= 2
    /\ snapshot.total_requests = Recorded(snap_hist)

\* C24: the error rate of a snapshot is failed / total * 100 over the
\* record_request calls since the last reset, and 0 when there are none.
C24_ErrorRate ==
    snapshot.taken =>
        snapshot.error_rate =
            IF Recorded(snap_hist) = 0 THEN [num |-> 0, den |-> 1]
            ELSE Ratio(snap_hist.failed * 100, Recorded(snap_hist))

\* 10 requests recorded, 3 of them failed: the error rate is 30.
C24_Witness ==
    /\ snapshot.taken
    /\ Recorded(snap_hist) = 10
    /\ snap_hist.failed = 3
    /\ snapshot.error_rate = [num |-> 30, den |-> 1]

\* C25: the average latency of a snapshot is the sum of the latencies
\* recorded since the last reset divided by their number, and 0 when
\* nothing was recorded.
C25_AverageLatency ==
    snapshot.taken =>
        snapshot.average_latency_ms =
            IF Recorded(snap_hist) = 0 THEN [num |-> 0, den |-> 1]
            ELSE Ratio(LatencySum(snap_hist, Latencies), Recorded(snap_hist))

\* Latencies 100, 200 and 300 recorded: the average is 200.
C25_Witness ==
    /\ snapshot.taken
    /\ snap_hist.lat = [l \in Latencies |-> 1]
    /\ snapshot.average_latency_ms = [num |-> 200, den |-> 1]

\* C31: the state of the breaker changes only closed -> open,
\* open -> half-open, half-open -> closed or half-open -> open; it leaves
\* open only when recovery_timeout has elapsed since the last recorded
\* failure, and it enters open only with failure_count at the threshold.
C31_OnlyAllowedTransitions ==
    [][state' # state =>
          /\ <<state, state'>> \in {<<"closed", "open">>,
                                    <<"open", "half-open">>,
                                    <<"half-open", "closed">>,
                                    <<"half-open", "open">>}
          /\ (state = "open" => now - last_failure_time >= RecoveryTicks)
          /\ (state' = "open" => failure_count' >= failure_threshold)]_vars

\* The probe admitted after the recovery time failed and re-opened the
\* breaker.
C31_Witness ==
    /\ state = "open"
    /\ failure_count >= failure_threshold
    /\ \E c \in Callers :
          /\ cpc[c] = "done"
          /\ entered[c] = "half-open"
          /\ outcome[c] = "raised"

\* C32: a call that returns while the breaker is not open sets
\* failure_count to 0 and leaves the breaker closed (a half-open breaker
\* closes, a closed one stays closed); the breaker opens only after
\* failure_threshold failures with no success between them.
C32_SuccessResets ==
    [][/\ \A c \in Callers :
            (/\ cpc[c] = "awaiting"
             /\ cpc'[c] = "done"
             /\ outcome'[c] = "returned"
             /\ state # "open")
            => (failure_count' = 0 /\ state' = "closed")
       /\ (state # "open" /\ state' = "open")
            => consec' >= failure_threshold]_vars

\* A probe returned: the breaker is closed again and the count is 0.
C32_Witness ==
    /\ state = "closed"
    /\ failure_count = 0
    /\ failure_threshold >= 2
    /\ \E c \in Callers :
          /\ cpc[c] = "done"
          /\ entered[c] = "half-open"
          /\ outcome[c] = "returned"

C34_OpenEventuallyProbes ==
    (/\ state = "open"
     /\ now - last_failure_time >= RecoveryTicks
     /\ calls < MaxCalls)
    ~> (state # "open" \/ now - last_failure_time < RecoveryTicks)

\* A call made after the recovery time is in flight as the probe.
C34_Witness ==
    /\ state = "half-open"
    /\ now - last_failure_time >= RecoveryTicks
    /\ \E c \in Callers :
          /\ cpc[c] = "awaiting"
          /\ entered[c] = "half-open"
    /\ \E c \in Callers : outcome[c] = "CircuitBreakerError"

\* C35: whenever the breaker is open, failure_count is at least
\* failure_threshold.
C35_OpenImpliesCountAtThreshold ==
    state = "open" => failure_count >= failure_threshold

\* C36: while the wrapper waits out the delay between two attempts,
\* other work of the same runtime can make progress, whether the wrapped
\* operation is a coroutine or a plain function.
C36_DelayDoesNotBlock ==
    (rpc = "sleeping" /\ other_done < MaxOtherSteps) => ENABLED OtherTaskRuns

\* C37: given the same configuration and the same outcomes of the
\* attempts, sync_wrapper and async_wrapper have invoked the operation
\* the same number of times, slept the same delays in the same order and
\* ended with the same result or the same propagated failure.
C37_WrappersEquivalent ==
    /\ sync_run.invocations = async_run.invocations
    /\ sync_run.slept = async_run.slept
    /\ sync_run.status = async_run.status
    /\ sync_run.result = async_run.result
    /\ sync_run.propagated = async_run.propagated

\* Both wrappers gave up after the same three invocations and the same
\* two delays, the second one capped by max_delay.
C37_Witness ==
    /\ async_run.status = "raised"
    /\ sync_run.status = "raised"
    /\ async_run.invocations = 3
    /\ sync_run.slept = <<2, 3>>
    /\ max_delay = 3
    /\ sync_run.propagated.id = 3

\* C38: reset_metrics replaces the whole counter set at once: a snapshot
\* taken after a reset shows exactly what was accumulated from 0 since
\* that reset, and nothing of what was counted before it; taken right
\* after the reset, every counter of it is 0.
C38_ResetReplacesAll ==
    (snapshot.taken /\ snap_hist.after_reset) =>
        /\ snapshot.total_requests = Recorded(snap_hist)
        /\ snapshot.successful_requests = snap_hist.ok
        /\ snapshot.failed_requests = snap_hist.failed
        /\ snapshot.total_sessions = snap_hist.sessions
        /\ (Recorded(snap_hist) + snap_hist.sessions + snap_hist.decrements = 0)
             => /\ snapshot.active_sessions = 0
                /\ snapshot.average_latency_ms = [num |-> 0, den |-> 1]
                /\ snapshot.error_rate = [num |-> 0, den |-> 1]

\* A snapshot taken right after a reset that replaced counters which
\* were not 0: every counter of the snapshot is 0.
C38_Witness ==
    /\ snapshot.taken
    /\ snap_hist.after_reset
    /\ snap_hist.wiped
    /\ Recorded(snap_hist) + snap_hist.sessions + snap_hist.decrements = 0
    /\ snapshot.total_requests = 0
    /\ snapshot.total_sessions = 0
    /\ snapshot.active_sessions = 0

\* C39: with no reset_metrics call, active_sessions is the number of
\* create_clinical_note invocations in flight (0 once every invocation
\* has finished, however it ended) and total_sessions is the number of
\* invocations started.
C39_SessionsBalanced ==
    /\ metrics.active_sessions = IF hpc = "idle" THEN 0 ELSE 1
    /\ metrics.total_sessions = invoked

\* Two invocations have finished, the second one with an error: no
\* session is active and two are counted.
C39_Witness ==
    /\ hpc = "idle"
    /\ invoked = 2
    /\ hout = "HTTPException(500)"
    /\ metrics.active_sessions = 0
    /\ metrics.total_sessions = 2
    /\ metrics.successful_requests = 1

\* C40: clients are isolated. The entries of a client inside the window
\* are exactly that client's own admissions, whatever calls were made
\* for other clients, and a client is denied only when its own
\* admissions inside the window have reached the limit.
C40_ClientsIsolated ==
    /\ \A c \in ClientIds :
          /\ Len(DropAgedW(requests[c], now)) = InWindow(admitted[c], now)
          /\ \A i \in DOMAIN requests[c] :
                \E j \in DOMAIN admitted[c] : admitted[c][j] = requests[c][i].ts
    /\ \A t \in Threads :
          pc[t] = "get_retry_after" =>
              InWindow(admitted[client_id[t]], current_time[t])
                  >= requests_per_minute

\* One client has used its quota up and is denied while a request of
\* another client is admitted with that client's whole quota.
C40_Witness ==
    \E t, u \in Threads :
        /\ client_id[t] # client_id[u]
        /\ requests_per_minute >= 1
        /\ pc[t] = "get_retry_after"
        /\ Len(requests[client_id[t]]) = requests_per_minute
        /\ pc[u] = "call_next"
        /\ result[u].set /\ result[u].allowed
        /\ result[u].remaining = requests_per_minute - 1
        /\ Len(requests[client_id[u]]) = 1

====
